---------------------------- MODULE Spec2Model ----------------------------
(***************************************************************************)
(* Drought-risk prediction service (model.py, main.py).                    *)
(*                                                                         *)
(* Volumes are integers in thousandths of hm3 (650.5 hm3 = 650500), the    *)
(* scenario factors are in tenths (0.9 = 9), dates are month ordinals     *)
(* (months since 1970-01, every date the first of its month).              *)
(* An optional value (Python None / a value) is the empty tuple <<>> or    *)
(* the one-element tuple <<x>>.                                            *)
(***************************************************************************)
EXTENDS Integers, Sequences, FiniteSets, TLC

VARIABLES
    MODEL,          \* None, or the fitted forecast model
    DF_ANUAL_PRED,  \* None, or the historical series (rows ds, y)
    DF_ESCENARIOS,  \* None, or the scenario table
    UMBRALES,       \* the thresholds dictionary ({} before initialization)
    Y_ULTIMO_REAL,  \* None, or the last historical value
    ultimoInit,     \* how the most recent inicializar_modulo call ended: "ninguno"
                    \* (never called), "ok", or why it raised
    llamada         \* the call being served: operation, arguments, outcome

vars == <<MODEL, DF_ANUAL_PRED, DF_ESCENARIOS, UMBRALES, Y_ULTIMO_REAL,
          ultimoInit, llamada>>

globales == <<MODEL, DF_ANUAL_PRED, DF_ESCENARIOS, UMBRALES, Y_ULTIMO_REAL>>

None == <<>>
Some(x) == <<x>>
Val(o) == o[1]

Min(a, b) == IF a < b THEN a ELSE b
Max(a, b) == IF a > b THEN a ELSE b

RECURSIVE SelectRange(_, _, _, _)
\* the rows lo..hi of s whose index is in keep, in their order
SelectRange(s, keep, lo, hi) ==
    IF lo > hi THEN <<>>
    ELSE IF lo = hi THEN (IF lo \in keep THEN <<s[lo]>> ELSE <<>>)
    ELSE LET mid == (lo + hi) \div 2
         IN SelectRange(s, keep, lo, mid) \o SelectRange(s, keep, mid + 1, hi)

\* the rows of s whose index is in keep, in their order (a boolean mask)
SelectRows(s, keep) == SelectRange(s, keep, 1, Len(s))

(***************************************************************************)
(* Bounds of the model                                                     *)
(***************************************************************************)
\* longest sequence of periods handed directly to clasificar_riesgo
MaxPeriodos == 10
\* longest sequence handed directly to aplicar_escenario / construir_respuesta_api
MaxFilas == 3

(***************************************************************************)
(* Historical data loader                                                  *)
(***************************************************************************)
Row(f, t) == [fecha |-> f, total |-> t]

\* pd.DataFrame.sort_values("fecha"): ascending, missing dates last, equal
\* keys in their original order (insertion of the last row into the sorted
\* prefix, after every row that is not greater).
FechaAntes(a, b) == a.fecha # None /\ (b.fecha = None \/ Val(a.fecha) < Val(b.fecha))

RECURSIVE InsertRow(_, _)
InsertRow(s, r) ==
    IF s = <<>> THEN <<r>>
    ELSE IF FechaAntes(r, s[Len(s)])
         THEN Append(InsertRow(SubSeq(s, 1, Len(s) - 1), r), s[Len(s)])
         ELSE Append(s, r)

RECURSIVE SortValues(_)
SortValues(s) ==
    IF s = <<>> THEN <<>>
    ELSE InsertRow(SortValues(SubSeq(s, 1, Len(s) - 1)), s[Len(s)])

\* dropna(subset=["fecha", "total"])
DropNa(s) ==
    SelectRows(s, {i \in 1..Len(s) : s[i].fecha # None /\ s[i].total # None})

\* cargar_datos_historicos: the error it raises, or the cleaned frame
cargar_datos_historicos(csv) ==
    IF ~csv.existe
    THEN [exc |-> "FileNotFoundError", motivo |-> "falta_archivo", df |-> <<>>]
    ELSE IF ~({"fecha", "total"} \subseteq csv.columnas)
    THEN [exc |-> "ValueError", motivo |-> "faltan_columnas", df |-> <<>>]
    ELSE [exc |-> "", motivo |-> "", df |-> DropNa(SortValues(csv.filas))]

\* rename(columns={"fecha": "ds", "total": "y"}) of a cleaned frame
RenameProphet(df) ==
    [i \in 1..Len(df) |-> [ds |-> Val(df[i].fecha), y |-> Val(df[i].total)]]

(***************************************************************************)
(* Threshold calculator                                                    *)
(***************************************************************************)
RECURSIVE InsertNum(_, _)
InsertNum(s, x) ==
    IF s = <<>> THEN <<x>>
    ELSE IF x < s[Len(s)]
         THEN Append(InsertNum(SubSeq(s, 1, Len(s) - 1), x), s[Len(s)])
         ELSE Append(s, x)

RECURSIVE SortNum(_)
SortNum(s) ==
    IF s = <<>> THEN <<>>
    ELSE InsertNum(SortNum(SubSeq(s, 1, Len(s) - 1)), s[Len(s)])

RECURSIVE SumSeq(_)
SumSeq(s) == IF s = <<>> THEN 0 ELSE s[Len(s)] + SumSeq(SubSeq(s, 1, Len(s) - 1))

\* np.percentile(ys, q), linear interpolation between order statistics:
\* virtual index q/100 * (n - 1) into the sorted values (ys non-empty)
Percentile(ys, q) ==
    LET a    == SortNum(ys)
        n    == Len(a)
        pos  == q * (n - 1)          \* hundredths of an index
        lo   == pos \div 100
        frac == pos % 100
        hi   == Min(lo + 1, n - 1)
    IN a[lo + 1] + (frac * (a[hi + 1] - a[lo + 1])) \div 100

\* A threshold is a float that may be NaN: <<x>>, or NaN, which compares
\* false with everything.
NaN == <<>>
Lt(v, u) == u # NaN /\ v < u[1]
Ge(v, u) == u # NaN /\ v >= u[1]

\* calcular_umbrales on a non-empty series (the mean rounded down to the unit)
calcular_umbrales(ys) ==
    [claves        |-> {"umbral_bajo", "umbral_sequia", "media"},
     umbral_bajo   |-> <<Percentile(ys, 25)>>,
     umbral_sequia |-> <<Percentile(ys, 10)>>,
     media         |-> <<SumSeq(ys) \div Len(ys)>>]

\* the thresholds dictionary before initialization: {}
UmbralesVacio ==
    [claves |-> {}, umbral_bajo |-> NaN, umbral_sequia |-> NaN, media |-> NaN]

\* percentiles and mean of an empty series: NaN
UmbralesNaN ==
    [claves        |-> {"umbral_bajo", "umbral_sequia", "media"},
     umbral_bajo   |-> NaN, umbral_sequia |-> NaN, media |-> NaN]


(***************************************************************************)
(* Forecast provider (Prophet) and initialization                          *)
(***************************************************************************)
\* Prophet.fit refuses a frame with fewer than two rows
FitFalla(df) == Len(df) < 2

\* entrenar_modelo: the fitted model keeps the dates it was trained on; its
\* central estimate is a trend anchored at the last training observation
entrenar_modelo(df) ==
    [fechas    |-> SelectRows([i \in 1..Len(df) |-> df[i].ds],
                              {i \in 1..Len(df) : i = 1 \/ df[i].ds # df[i - 1].ds}),
     ultima    |-> df[Len(df)].ds,
     nivel     |-> df[Len(df)].y,
     pendiente |-> 10 * ((df[Len(df)].y - df[1].y) \div (10 * Len(df)))]

\* a slip: the factors of the two dry scenarios exchanged
TablaEscenariosCambiada ==
    << [escenario |-> "normal",   factor_volumen |-> 10],
       [escenario |-> "seco",     factor_volumen |-> 8],
       [escenario |-> "muy_seco", factor_volumen |-> 9],
       [escenario |-> "humedo",   factor_volumen |-> 11] >>

\* the scenario table built by inicializar_modulo
TablaEscenarios ==
    << [escenario |-> "normal",   factor_volumen |-> 10],
       [escenario |-> "seco",     factor_volumen |-> 9],
       [escenario |-> "muy_seco", factor_volumen |-> 8],
       [escenario |-> "humedo",   factor_volumen |-> 11] >>

\* The tabular sources offered to inicializar_modulo
CsvFalta    == [existe |-> FALSE, columnas |-> {}, filas |-> <<>>]
CsvEsquema  == [existe |-> TRUE, columnas |-> {"fecha", "embalse"}, filas |-> <<>>]
CsvVacio    == [existe |-> TRUE, columnas |-> {"fecha", "total"}, filas |-> <<>>]
CsvSinDatos == [existe |-> TRUE, columnas |-> {"fecha", "total", "embalse"},
                filas |-> << Row(Some(650), None), Row(None, Some(700000)) >>]
CsvUno      == [existe |-> TRUE, columnas |-> {"fecha", "total"},
                filas |-> << Row(Some(655), Some(640000)) >>]
CsvA        == [existe |-> TRUE, columnas |-> {"fecha", "total", "embalse"},
                filas |-> << Row(Some(652), Some(700000)),
                             Row(Some(650), Some(600000)),
                             Row(None,      Some(900000)),
                             Row(Some(651), Some(650000)),
                             Row(Some(651), Some(660000)),
                             Row(Some(653), None),
                             Row(Some(654), Some(650500)) >>]
CsvB        == [existe |-> TRUE, columnas |-> {"fecha", "total"},
                filas |-> << Row(Some(648), Some(500000)),
                             Row(Some(649), Some(480000)),
                             Row(Some(647), Some(520000)) >>]

\* two years with the same volume
CsvIgual    == [existe |-> TRUE, columnas |-> {"fecha", "total"},
                filas |-> << Row(Some(656), Some(640000)),
                             Row(Some(657), Some(640000)) >>]

\* eleven years whose 10th and 25th percentiles are 600.0 and 650.0, with
\* last value 650.5 and a next-period central estimate of 700.0
CsvEjemplo  == [existe |-> TRUE, columnas |-> {"fecha", "total"},
                filas |-> << Row(Some(644), Some(106000)),
                             Row(Some(645), Some(600000)),
                             Row(Some(646), Some(720000)),
                             Row(Some(647), Some(649500)),
                             Row(Some(648), Some(660000)),
                             Row(Some(649), Some(670000)),
                             Row(Some(650), Some(710000)),
                             Row(Some(651), Some(680000)),
                             Row(Some(652), Some(690000)),
                             Row(Some(653), Some(700000)),
                             Row(Some(654), Some(650500)) >>]

Fuentes == {CsvFalta, CsvEsquema, CsvVacio, CsvSinDatos, CsvUno, CsvIgual, CsvA, CsvB,
            CsvEjemplo}

\* inicializar_modulo(ruta_csv): the globals are assigned one by one, so an
\* exception leaves those already assigned changed and the others as before.
inicializar_modulo(csv) ==
    LET carga == cargar_datos_historicos(csv)
        df    == RenameProphet(carga.df)
        ys    == [i \in 1..Len(df) |-> df[i].y]
    IN IF carga.exc # ""
       THEN \* 1. cargar_datos_historicos raises: nothing assigned
            /\ ultimoInit' = carga.motivo
            /\ UNCHANGED globales
       ELSE IF df = <<>>
       THEN \* 2.-3. empty series: np.percentile either raises on it or gives
            \* NaN, and iloc[-1] raises IndexError
            /\ DF_ANUAL_PRED' = Some(df)
            /\ UMBRALES' \in {UMBRALES, UmbralesNaN}
            /\ ultimoInit' = "serie_vacia"
            /\ UNCHANGED <<MODEL, DF_ESCENARIOS, Y_ULTIMO_REAL>>
       ELSE IF FitFalla(df)
       THEN \* 4. Prophet.fit raises
            /\ DF_ANUAL_PRED' = Some(df)
            /\ UMBRALES' = calcular_umbrales(ys)
            /\ Y_ULTIMO_REAL' = Some(df[Len(df)].y)
            /\ ultimoInit' = "fit_falla"
            /\ UNCHANGED <<MODEL, DF_ESCENARIOS>>
       ELSE /\ DF_ANUAL_PRED' = Some(df)
            /\ UMBRALES' = calcular_umbrales(ys)
            /\ Y_ULTIMO_REAL' = Some(df[Len(df)].y)
            /\ MODEL' = Some(entrenar_modelo(df))
            /\ DF_ESCENARIOS' = Some(TablaEscenarios)
            /\ ultimoInit' = "ok"


(***************************************************************************)
(* Outcomes: a returned value, or the exception raised                     *)
(***************************************************************************)
Ok(v) == [exc |-> "", motivo |-> "", recibido |-> <<>>, opciones |-> <<>>, val |-> v]
Raise(e, m, r, o) == [exc |-> e, motivo |-> m, recibido |-> <<r>>, opciones |-> o, val |-> <<>>]

\* a slip: the not-initialized condition raised as a validation error
NoInicializadoComoValidacion == Raise("ValueError", "no_inicializado", "", <<>>)

NoInicializado == Raise("RuntimeError", "no_inicializado", "", <<>>)

(***************************************************************************)
(* Processing functions                                                    *)
(***************************************************************************)
\* a slip: the last row of the scenario table left out of the valid names
validar_escenario_sin_ultimo(escenario) ==
    IF DF_ESCENARIOS = None
    THEN NoInicializado
    ELSE LET escenarios_validos ==
                 [i \in 1..(Len(Val(DF_ESCENARIOS)) - 1) |-> Val(DF_ESCENARIOS)[i].escenario]
         IN IF ~(\E i \in 1..Len(escenarios_validos) : escenarios_validos[i] = escenario)
            THEN Raise("ValueError", "escenario", escenario, escenarios_validos)
            ELSE Ok(TRUE)

\* validar_escenario: raises, or returns True
validar_escenario(escenario) ==
    IF DF_ESCENARIOS = None
    THEN NoInicializado
    ELSE LET escenarios_validos ==
                 [i \in 1..Len(Val(DF_ESCENARIOS)) |-> Val(DF_ESCENARIOS)[i].escenario]
         IN IF ~(\E i \in 1..Len(escenarios_validos) : escenarios_validos[i] = escenario)
            THEN Raise("ValueError", "escenario", escenario, escenarios_validos)
            ELSE Ok(TRUE)

\* a slip: one row too many
DfHeadUnoMas(df, n) ==
    IF n >= 0 THEN SubSeq(df, 1, Min(n + 1, Len(df)))
    ELSE SubSeq(df, 1, Max(0, Len(df) + n))

\* DataFrame.head(n): the first n rows; for a negative n, all rows but the last -n
DfHead(df, n) ==
    IF n >= 0 THEN SubSeq(df, 1, Min(n, Len(df)))
    ELSE SubSeq(df, 1, Max(0, Len(df) + n))

\* Prophet's central estimate for date t
Yhat(m, t) == m.nivel + m.pendiente * (t - m.ultima)

\* generar_forecast_base: ancho is the half-width of the uncertainty interval
\* Prophet samples for this call
generar_forecast_base(horizonte_meses, ancho) ==
    IF MODEL = None \/ DF_ANUAL_PRED = None
    THEN NoInicializado
    ELSE LET m  == Val(MODEL)
             df == Val(DF_ANUAL_PRED)
             \* DF_ANUAL_PRED["ds"].max(): NaT on an empty frame
             ultima_fecha ==
                 IF df = <<>> THEN None
                 ELSE Some(CHOOSE d \in {df[i].ds : i \in 1..Len(df)} :
                               \A i \in 1..Len(df) : df[i].ds <= d)
             \* make_future_dataframe: the training dates, then the next
             \* horizonte_meses month starts
             future == m.fechas \o [i \in 1..Max(horizonte_meses, 0) |-> m.ultima + i]
             forecast == [i \in 1..Len(future) |->
                            [ds         |-> future[i],
                             yhat       |-> Yhat(m, future[i]),
                             yhat_lower |-> Yhat(m, future[i]) - ancho,
                             yhat_upper |-> Yhat(m, future[i]) + ancho]]
             despues == SelectRows(forecast,
                            {i \in 1..Len(forecast) :
                                ultima_fecha # None /\ forecast[i].ds > Val(ultima_fecha)})
         IN Ok(DfHead(despues, horizonte_meses))

\* A row with columns assigned is written f @@ row: the columns of f, then
\* the other columns of row.

\* multiplication of a volume by a factor given in tenths
Por(v, factor) == (v * factor) \div 10

\* aplicar_escenario: the outcome and the caller's frame after the call
aplicar_escenario(pred_df, escenario) ==
    LET v == validar_escenario(escenario)
    IN IF v.exc # "" THEN [res |-> v, pred_df |-> pred_df]
       ELSE LET tabla  == Val(DF_ESCENARIOS)
                factor == tabla[CHOOSE i \in 1..Len(tabla) :
                                    /\ tabla[i].escenario = escenario
                                    /\ \A j \in 1..(i - 1) : tabla[j].escenario # escenario
                               ].factor_volumen
                resultado == [i \in 1..Len(pred_df) |->
                                [yhat_adj       |-> Por(pred_df[i].yhat, factor),
                                 yhat_lower_adj |-> Por(pred_df[i].yhat_lower, factor),
                                 yhat_upper_adj |-> Por(pred_df[i].yhat_upper, factor)]
                                @@ pred_df[i]]
            IN [res |-> Ok(resultado), pred_df |-> pred_df]

\* a slip: the offset subtracted (last value minus user level)
ajustar_con_delta_invertido(pred_df, y_ultimo_real, nivel_actual_usuario) ==
    LET delta == IF nivel_actual_usuario = None THEN 0
                 ELSE y_ultimo_real - Val(nivel_actual_usuario)
    IN [i \in 1..Len(pred_df) |->
          [yhat_final       |-> pred_df[i].yhat_adj + delta,
           yhat_lower_final |-> pred_df[i].yhat_lower_adj + delta,
           yhat_upper_final |-> pred_df[i].yhat_upper_adj + delta]
          @@ pred_df[i]]

\* ajustar_por_nivel_usuario
ajustar_por_nivel_usuario(pred_df, y_ultimo_real, nivel_actual_usuario) ==
    LET delta == IF nivel_actual_usuario = None THEN 0
                 ELSE Val(nivel_actual_usuario) - y_ultimo_real
    IN [i \in 1..Len(pred_df) |->
          [yhat_final       |-> pred_df[i].yhat_adj + delta,
           yhat_lower_final |-> pred_df[i].yhat_lower_adj + delta,
           yhat_upper_final |-> pred_df[i].yhat_upper_adj + delta]
          @@ pred_df[i]]


\* asignar_situacion, the row-wise callback of clasificar_riesgo
\* (the labels without their accents)
asignar_situacion(row) ==
    IF row.es_sequia THEN "Sequia severa"
    ELSE IF row.es_bajo THEN "Nivel bajo"
    ELSE "Normal"

\* a slip: the boundary percentage itself counted as above it
PorcentajeMayorOIgual(meses_criticos, total_meses, k) ==
    IF total_meses > 0 THEN meses_criticos * 100 >= k * total_meses ELSE 0 > k

\* a slip: zero months counted as all of them critical (else 100)
PorcentajeSinMesesCien(meses_criticos, total_meses, k) ==
    IF total_meses > 0 THEN meses_criticos * 100 > k * total_meses ELSE 100 > k

\* porcentaje > k, where porcentaje = meses_criticos / total_meses * 100 if
\* total_meses > 0 else 0 (the quotient compared as a fraction)
PorcentajeMayor(meses_criticos, total_meses, k) ==
    IF total_meses > 0 THEN meses_criticos * 100 > k * total_meses ELSE 0 > k

\* the global risk of meses_criticos critical months out of total_meses
RiesgoGlobal(meses_criticos, total_meses) ==
    IF PorcentajeMayor(meses_criticos, total_meses, 50) THEN "CRITICO"
    ELSE IF PorcentajeMayor(meses_criticos, total_meses, 30) THEN "ALTO"
    ELSE IF PorcentajeMayor(meses_criticos, total_meses, 10) THEN "MODERADO"
    ELSE "BAJO"

\* a slip: the low-level flag without its lower bound
MarcarSinCotaInferior(row, umbral_bajo, umbral_sequia) ==
    [es_sequia |-> Lt(row.yhat_final, umbral_sequia),
     es_bajo   |-> Lt(row.yhat_final, umbral_bajo)]
    @@ row

\* the monthly flags of one row of clasificar_riesgo
Marcar(row, umbral_bajo, umbral_sequia) ==
    [es_sequia |-> Lt(row.yhat_final, umbral_sequia),
     es_bajo   |-> Ge(row.yhat_final, umbral_sequia) /\ Lt(row.yhat_final, umbral_bajo)]
    @@ row

\* clasificar_riesgo: the classified frame and the global risk
clasificar_riesgo(pred_df, umbral_bajo, umbral_sequia) ==
    LET marcado   == [i \in 1..Len(pred_df) |-> Marcar(pred_df[i], umbral_bajo, umbral_sequia)]
        resultado == [i \in 1..Len(pred_df) |->
                        [situacion |-> asignar_situacion(marcado[i])] @@ marcado[i]]
        total_meses    == Len(resultado)
        meses_criticos == Cardinality({i \in 1..Len(resultado) :
                              resultado[i].es_sequia \/ resultado[i].es_bajo})
    IN [df |-> resultado, riesgo_global |-> RiesgoGlobal(meses_criticos, total_meses)]

\* strftime('%Y-%m-%d') of a month ordinal: <<year, month, day>>
Strftime(ds) == <<1970 + ds \div 12, (ds % 12) + 1, 1>>

\* round(x, 2): to the nearest hundredth (ten units), a tie to the even one
Round2(x) ==
    LET r == x % 10
        abajo == x - r
    IN IF r < 5 THEN abajo
       ELSE IF r > 5 THEN abajo + 10
       ELSE IF (abajo \div 10) % 2 = 0 THEN abajo ELSE abajo + 10

\* the monthly entries of the response: one per row of pred_df.head(horizonte_meses)
PrediccionMensual(pred_df, horizonte_meses) ==
    LET filas == DfHead(pred_df, horizonte_meses)
    IN [i \in 1..Len(filas) |->
          [fecha         |-> Strftime(filas[i].ds),
           nivel         |-> Round2(filas[i].yhat_final),
           situacion     |-> filas[i].situacion,
           es_sequia     |-> filas[i].es_sequia,
           es_nivel_bajo |-> filas[i].es_bajo]]

\* construir_respuesta_api
construir_respuesta_api(escenario, horizonte_meses, nivel_actual_usuario, pred_df, riesgo_global) ==
    [escenario            |-> escenario,
     horizonte_meses      |-> horizonte_meses,
     nivel_actual_usuario |-> nivel_actual_usuario,
     riesgo_global        |-> riesgo_global,
     sequia_probable      |-> riesgo_global \in {"ALTO", "CRITICO"},
     prediccion_mensual   |-> PrediccionMensual(pred_df, horizonte_meses)]

(***************************************************************************)
(* Orchestrator                                                            *)
(***************************************************************************)
HorizonteMin == 1
HorizonteMax == 180

\* a slip: the upper bound itself rejected
HorizonteInvalidoEstricto(horizonte_meses) ==
    horizonte_meses < HorizonteMin \/ horizonte_meses >= HorizonteMax

\* a slip: the upper bound of 60 months that the tests expect
HorizonteInvalido60(horizonte_meses) ==
    horizonte_meses < HorizonteMin \/ horizonte_meses > 60

\* the horizon check of predecir_escenario
HorizonteInvalido(horizonte_meses) ==
    horizonte_meses < HorizonteMin \/ horizonte_meses > HorizonteMax

\* a slip: the calibration offset added to the base forecast, before the
\* scenario factor
predecir_escenario_desplazando_antes(horizonte_meses, escenario, nivel_actual_usuario, ancho) ==
    IF MODEL = None \/ DF_ANUAL_PRED = None THEN NoInicializado
    ELSE LET v == validar_escenario(escenario) IN
    IF v.exc # "" THEN v
    ELSE IF HorizonteInvalido(horizonte_meses)
    THEN Raise("ValueError", "horizonte", horizonte_meses, <<HorizonteMin, HorizonteMax>>)
    ELSE LET base == generar_forecast_base(horizonte_meses, ancho) IN
    IF base.exc # "" THEN base
    ELSE IF Y_ULTIMO_REAL = None /\ nivel_actual_usuario # None
    THEN Raise("TypeError", "y_ultimo_real", "", <<>>)
    ELSE IF UMBRALES.claves = {}
    THEN Raise("KeyError", "umbral_bajo", "", <<>>)
    ELSE LET delta  == IF nivel_actual_usuario = None THEN 0
                       ELSE Val(nivel_actual_usuario) - Val(Y_ULTIMO_REAL)
             movido == [i \in 1..Len(base.val) |->
                          [yhat       |-> base.val[i].yhat + delta,
                           yhat_lower |-> base.val[i].yhat_lower + delta,
                           yhat_upper |-> base.val[i].yhat_upper + delta]
                          @@ base.val[i]]
             esc == aplicar_escenario(movido, escenario).res
             cal == ajustar_por_nivel_usuario(esc.val, 0, None)
             cls == clasificar_riesgo(cal, UMBRALES.umbral_bajo, UMBRALES.umbral_sequia)
         IN Ok(construir_respuesta_api(escenario, horizonte_meses,
                                       nivel_actual_usuario, cls.df, cls.riesgo_global))

\* predecir_escenario: the response, or the exception raised
predecir_escenario(horizonte_meses, escenario, nivel_actual_usuario, ancho) ==
    IF MODEL = None \/ DF_ANUAL_PRED = None THEN NoInicializado
    ELSE LET v == validar_escenario(escenario) IN
    IF v.exc # "" THEN v
    ELSE IF HorizonteInvalido(horizonte_meses)
    THEN Raise("ValueError", "horizonte", horizonte_meses, <<HorizonteMin, HorizonteMax>>)
    ELSE LET base == generar_forecast_base(horizonte_meses, ancho) IN
    IF base.exc # "" THEN base
    ELSE LET esc == aplicar_escenario(base.val, escenario).res IN
    IF esc.exc # "" THEN esc
    ELSE IF Y_ULTIMO_REAL = None /\ nivel_actual_usuario # None
    THEN Raise("TypeError", "y_ultimo_real", "", <<>>)
    ELSE IF UMBRALES.claves = {}
    THEN Raise("KeyError", "umbral_bajo", "", <<>>)
    ELSE LET cal == ajustar_por_nivel_usuario(
                        esc.val,
                        IF Y_ULTIMO_REAL = None THEN 0 ELSE Val(Y_ULTIMO_REAL),
                        nivel_actual_usuario)
             cls == clasificar_riesgo(cal, UMBRALES.umbral_bajo, UMBRALES.umbral_sequia)
         IN Ok(construir_respuesta_api(escenario, horizonte_meses,
                                       nivel_actual_usuario, cls.df, cls.riesgo_global))

\* the HTTP status the /predict handler answers with
HttpStatus(res) ==
    IF res.exc = "" THEN 200
    ELSE IF res.exc = "ValueError" THEN 400
    ELSE 500

(***************************************************************************)
(* The service: initialization, reloads and requests                       *)
(***************************************************************************)
Horizontes  == {-1, 0, 1, 2, 3, 12, 60, 61, 100, 180, 181, 182}
Escenarios  == {"normal", "seco", "muy_seco", "humedo", "invalido", "dry"}
Niveles     == {None, Some(660000), Some(640004)}
Anchos      == {20000, 35000}

FilaBase(ds, yhat, ancho) ==
    [ds |-> ds, yhat |-> yhat, yhat_lower |-> yhat - ancho, yhat_upper |-> yhat + ancho]
FilasBase == {FilaBase(660, 700000, 20000), FilaBase(661, 590010, 35000)}

\* the sequences over S of length at most n
SeqHasta(S, n) == UNION {[1..k -> S] : k \in 0..n}

Libre == [op |-> "", args |-> <<>>, res |-> None]

Init ==
    /\ MODEL = None
    /\ DF_ANUAL_PRED = None
    /\ DF_ESCENARIOS = None
    /\ UMBRALES = UmbralesVacio
    /\ Y_ULTIMO_REAL = None
    /\ ultimoInit = "ninguno"
    /\ llamada = Libre

\* a call of inicializar_modulo: at import, or a reload
Inicializar ==
    /\ llamada = Libre
    /\ \E csv \in Fuentes : inicializar_modulo(csv)
    /\ UNCHANGED llamada

\* a slip: an answered request keeps the user's level as the last value
PredictRecordandoNivel ==
    /\ llamada = Libre
    /\ \E h \in Horizontes, e \in Escenarios, n \in Niveles, a \in Anchos :
          LET res == predecir_escenario(h, e, n, a)
          IN /\ llamada' = [op   |-> "predecir_escenario",
                            args |-> [horizonte_meses |-> h, escenario |-> e,
                                      nivel_actual_usuario |-> n],
                            res  |-> Some(res @@ [status |-> HttpStatus(res)])]
             /\ Y_ULTIMO_REAL' = IF res.exc = "" /\ n # None THEN n ELSE Y_ULTIMO_REAL
    /\ UNCHANGED <<MODEL, DF_ANUAL_PRED, DF_ESCENARIOS, UMBRALES, ultimoInit>>

\* a /predict request, served by predecir_escenario
Predict ==
    /\ llamada = Libre
    /\ \E h \in Horizontes, e \in Escenarios, n \in Niveles, a \in Anchos :
          LET res == predecir_escenario(h, e, n, a)
          IN llamada' = [op   |-> "predecir_escenario",
                         args |-> [horizonte_meses |-> h, escenario |-> e,
                                   nivel_actual_usuario |-> n],
                         res  |-> Some(res @@ [status |-> HttpStatus(res)])]
    /\ UNCHANGED <<globales, ultimoInit>>

\* a direct call of aplicar_escenario
AplicarEscenario ==
    /\ llamada = Libre
    /\ \E df \in SeqHasta(FilasBase, MaxFilas), e \in Escenarios :
          LET r == aplicar_escenario(df, e)
          IN llamada' = [op   |-> "aplicar_escenario",
                         args |-> [pred_df |-> df, escenario |-> e],
                         res  |-> Some(r.res @@ [pred_df |-> r.pred_df])]
    /\ UNCHANGED <<globales, ultimoInit>>

\* the outcome has been returned to the caller and is discarded
Retornar ==
    /\ llamada # Libre
    /\ llamada' = Libre
    /\ UNCHANGED <<globales, ultimoInit>>

Next == Inicializar \/ Predict \/ AplicarEscenario \/ Retornar

Spec == Init /\ [][Next]_vars


(***************************************************************************)
(* Direct calls of the pure functions                                      *)
(***************************************************************************)
FilaCalibrada(v) == [yhat_final |-> v]

\* calibrated values around the thresholds 600.0 and 650.0
ValoresCortos == {590000, 600000, 625000, 650000, 700000}
ValoresLargos == {590000, 625000, 700000}
UmbralesDirectos == {<<600000>>, <<650000>>, NaN}

InitClasificar ==
    /\ MODEL = None
    /\ DF_ANUAL_PRED = None
    /\ DF_ESCENARIOS = None
    /\ UMBRALES = UmbralesVacio
    /\ Y_ULTIMO_REAL = None
    /\ ultimoInit = "ninguno"
    /\ \/ \E vs \in SeqHasta(ValoresCortos, MaxFilas),
             b \in UmbralesDirectos, q \in UmbralesDirectos :
             llamada = [op   |-> "clasificar_riesgo",
                        args |-> [pred_df |-> [i \in 1..Len(vs) |-> FilaCalibrada(vs[i])],
                                  umbral_bajo |-> b, umbral_sequia |-> q],
                        res  |-> None]
       \/ \E vs \in SeqHasta(ValoresLargos, MaxPeriodos) :
             llamada = [op   |-> "clasificar_riesgo",
                        args |-> [pred_df |-> [i \in 1..Len(vs) |-> FilaCalibrada(vs[i])],
                                  umbral_bajo |-> <<650000>>, umbral_sequia |-> <<600000>>],
                        res  |-> None]

\* the direct call of clasificar_riesgo on the arguments drawn
ClasificarRiesgo ==
    /\ llamada.op = "clasificar_riesgo"
    /\ llamada.res = None
    /\ llamada' = [llamada EXCEPT !.res =
                      Some(clasificar_riesgo(llamada.args.pred_df,
                                             llamada.args.umbral_bajo,
                                             llamada.args.umbral_sequia))]
    /\ UNCHANGED <<globales, ultimoInit>>

SpecClasificar == InitClasificar /\ [][ClasificarRiesgo]_vars

FilaClasificada(ds, v, sit) ==
    [ds |-> ds, yhat_final |-> v, situacion |-> sit,
     es_sequia |-> (sit = "Sequia severa"), es_bajo |-> (sit = "Nivel bajo")]
FilasClasificadas ==
    {FilaClasificada(660, 639504, "Nivel bajo"),
     FilaClasificada(671, 580006, "Sequia severa"),
     FilaClasificada(672, 701230, "Normal")}
HorizontesDirectos == (0 - 2)..(MaxFilas + 2)

InitRespuesta ==
    /\ MODEL = None
    /\ DF_ANUAL_PRED = None
    /\ DF_ESCENARIOS = None
    /\ UMBRALES = UmbralesVacio
    /\ Y_ULTIMO_REAL = None
    /\ ultimoInit = "ninguno"
    /\ \E df \in SeqHasta(FilasClasificadas, MaxFilas), h \in HorizontesDirectos,
          r \in {"BAJO", "MODERADO", "ALTO", "CRITICO"} :
          llamada = [op   |-> "construir_respuesta_api",
                     args |-> [escenario |-> "seco", horizonte_meses |-> h,
                               nivel_actual_usuario |-> Some(660000),
                               pred_df |-> df, riesgo_global |-> r],
                     res  |-> None]

\* the direct call of construir_respuesta_api on the arguments drawn
ConstruirRespuesta ==
    /\ llamada.op = "construir_respuesta_api"
    /\ llamada.res = None
    /\ llamada' = [llamada EXCEPT !.res =
                      Some(construir_respuesta_api(llamada.args.escenario,
                                                   llamada.args.horizonte_meses,
                                                   llamada.args.nivel_actual_usuario,
                                                   llamada.args.pred_df,
                                                   llamada.args.riesgo_global))]
    /\ UNCHANGED <<globales, ultimoInit>>

SpecRespuesta == InitRespuesta /\ [][ConstruirRespuesta]_vars

\* a scenario-adjusted row: a base row and its three adjusted values
FilaAjustada(ds, yhat, ancho, factor) ==
    [yhat_adj       |-> Por(yhat, factor),
     yhat_lower_adj |-> Por(yhat - ancho, factor),
     yhat_upper_adj |-> Por(yhat + ancho, factor)]
    @@ FilaBase(ds, yhat, ancho)
FilasAjustadas ==
    {FilaAjustada(660, 700000, 20000, 9),
     FilaAjustada(661, 590010, 35000, 10),
     FilaAjustada(662, 640000, 20000, 11)}
UltimosReales  == {650500, 480000}
NivelesDirectos == Niveles \cup {Some(650500)}

InitAjustar ==
    /\ MODEL = None
    /\ DF_ANUAL_PRED = None
    /\ DF_ESCENARIOS = None
    /\ UMBRALES = UmbralesVacio
    /\ Y_ULTIMO_REAL = None
    /\ ultimoInit = "ninguno"
    /\ \E df \in SeqHasta(FilasAjustadas, MaxFilas), y \in UltimosReales,
          n \in NivelesDirectos :
          llamada = [op   |-> "ajustar_por_nivel_usuario",
                     args |-> [pred_df |-> df, y_ultimo_real |-> y,
                               nivel_actual_usuario |-> n],
                     res  |-> None]

\* the direct call of ajustar_por_nivel_usuario on the arguments drawn
AjustarPorNivelUsuario ==
    /\ llamada.op = "ajustar_por_nivel_usuario"
    /\ llamada.res = None
    /\ llamada' = [llamada EXCEPT !.res =
                      Some(ajustar_por_nivel_usuario(llamada.args.pred_df,
                                                     llamada.args.y_ultimo_real,
                                                     llamada.args.nivel_actual_usuario))]
    /\ UNCHANGED <<globales, ultimoInit>>

SpecAjustar == InitAjustar /\ [][AjustarPorNivelUsuario]_vars

\* rows of a tabular source: out of order, a repeated date, a missing date,
\* a missing volume
FilasCsv ==
    {Row(Some(651), Some(650000)), Row(Some(650), Some(600000)),
     Row(Some(651), Some(660000)), Row(None, Some(900000)), Row(Some(653), None)}
ColumnasCsv == {{"fecha", "total"}, {"fecha", "total", "embalse"}, {"fecha", "embalse"}}

InitCargar ==
    /\ MODEL = None
    /\ DF_ANUAL_PRED = None
    /\ DF_ESCENARIOS = None
    /\ UMBRALES = UmbralesVacio
    /\ Y_ULTIMO_REAL = None
    /\ ultimoInit = "ninguno"
    /\ \E e \in BOOLEAN, c \in ColumnasCsv, f \in SeqHasta(FilasCsv, MaxFilas) :
          llamada = [op   |-> "cargar_datos_historicos",
                     args |-> [csv |-> [existe |-> e, columnas |-> c, filas |-> f]],
                     res  |-> None]

\* the direct call of cargar_datos_historicos on the source drawn
CargarDatosHistoricos ==
    /\ llamada.op = "cargar_datos_historicos"
    /\ llamada.res = None
    /\ llamada' = [llamada EXCEPT !.res = Some(cargar_datos_historicos(llamada.args.csv))]
    /\ UNCHANGED <<globales, ultimoInit>>

SpecCargar == InitCargar /\ [][CargarDatosHistoricos]_vars


(***************************************************************************)
(* predecir_escenario statement by statement, several calls in flight      *)
(*                                                                         *)
(* Here llamada holds one frame per call in flight: the statement the call *)
(* is at (pc), its arguments, its local variables forecast and             *)
(* riesgo_global, the statements it has executed (traza) and its outcome.  *)
(***************************************************************************)
\* calls of predecir_escenario that may be in flight together
NumPeticiones == 2
Peticiones == 1..NumPeticiones

FrameLibre ==
    [pc |-> "libre", args |-> <<>>, forecast |-> None, riesgo_global |-> None,
     traza |-> <<>>, res |-> None]

\* a slip: the forecast generated before the horizon is checked
SiguienteHorizonteTardio(pc) ==
    CASE pc = "init"       -> "escenario"
      [] pc = "escenario"  -> "forecast"
      [] pc = "forecast"   -> "horizonte"
      [] pc = "horizonte"  -> "aplicar"
      [] pc = "aplicar"    -> "ajustar"
      [] pc = "ajustar"    -> "clasificar"
      [] pc = "clasificar" -> "construir"
      [] pc = "construir"  -> "fin"

\* the statement of predecir_escenario that follows pc: the initialization
\* check, validar_escenario, the horizon check, then the five pipeline calls
Siguiente(pc) ==
    CASE pc = "init"       -> "escenario"
      [] pc = "escenario"  -> "horizonte"
      [] pc = "horizonte"  -> "forecast"
      [] pc = "forecast"   -> "aplicar"
      [] pc = "aplicar"    -> "ajustar"
      [] pc = "ajustar"    -> "clasificar"
      [] pc = "clasificar" -> "construir"
      [] pc = "construir"  -> "fin"

\* the statement at p.pc raises: the call ends with the exception
Falla(p, exc) ==
    [p EXCEPT !.pc = "fin", !.forecast = None, !.riesgo_global = None,
              !.traza = Append(@, p.pc), !.res = Some(exc)]

\* the statement at p.pc completes, leaving f in the local variable forecast
Sigue(p, f) ==
    [p EXCEPT !.pc = Siguiente(p.pc), !.forecast = f, !.traza = Append(@, p.pc)]

\* a slip: the intermediate frame read from another call at the same statement
ForecastCompartido(r) ==
    LET otros == {q \in Peticiones : /\ q # r
                                     /\ llamada[q].pc = llamada[r].pc
                                     /\ llamada[q].forecast # None}
    IN IF otros = {} THEN llamada[r].forecast
       ELSE llamada[CHOOSE q \in otros : TRUE].forecast

\* the local variable forecast of call r
Forecast(r) == llamada[r].forecast

\* the frame of call r after the statement it is at, ancho being the interval
\* the forecast provider samples
Etapa(r, ancho) ==
    LET p == llamada[r]
        a == p.args
    IN CASE p.pc = "init" ->
               IF MODEL = None \/ DF_ANUAL_PRED = None
               THEN Falla(p, NoInicializado) ELSE Sigue(p, None)
         [] p.pc = "escenario" ->
               LET v == validar_escenario(a.escenario)
               IN IF v.exc # "" THEN Falla(p, v) ELSE Sigue(p, None)
         [] p.pc = "horizonte" ->
               IF HorizonteInvalido(a.horizonte_meses)
               THEN Falla(p, Raise("ValueError", "horizonte", a.horizonte_meses,
                                   <<HorizonteMin, HorizonteMax>>))
               ELSE Sigue(p, Forecast(r))
         [] p.pc = "forecast" ->
               LET base == generar_forecast_base(a.horizonte_meses, ancho)
               IN IF base.exc # "" THEN Falla(p, base) ELSE Sigue(p, Some(base.val))
         [] p.pc = "aplicar" ->
               LET esc == aplicar_escenario(Val(Forecast(r)), a.escenario).res
               IN IF esc.exc # "" THEN Falla(p, esc) ELSE Sigue(p, Some(esc.val))
         [] p.pc = "ajustar" ->
               IF Y_ULTIMO_REAL = None /\ a.nivel_actual_usuario # None
               THEN Falla(p, Raise("TypeError", "y_ultimo_real", "", <<>>))
               ELSE Sigue(p, Some(ajustar_por_nivel_usuario(
                                     Val(Forecast(r)),
                                     IF Y_ULTIMO_REAL = None THEN 0 ELSE Val(Y_ULTIMO_REAL),
                                     a.nivel_actual_usuario)))
         [] p.pc = "clasificar" ->
               IF UMBRALES.claves = {}
               THEN Falla(p, Raise("KeyError", "umbral_bajo", "", <<>>))
               ELSE LET cls == clasificar_riesgo(Val(Forecast(r)), UMBRALES.umbral_bajo,
                                                 UMBRALES.umbral_sequia)
                    IN [Sigue(p, Some(cls.df)) EXCEPT
                           !.riesgo_global = Some(cls.riesgo_global)]
         [] p.pc = "construir" ->
               [p EXCEPT !.pc = "fin", !.forecast = None, !.riesgo_global = None,
                         !.traza = Append(@, p.pc),
                         !.res = Some(Ok(construir_respuesta_api(
                                     a.escenario, a.horizonte_meses,
                                     a.nivel_actual_usuario,
                                     Val(Forecast(r)), Val(p.riesgo_global))))]

FuentesEtapas == {CsvFalta, CsvEjemplo}
SolicitudesEtapas ==
    {[horizonte_meses |-> 2, escenario |-> "seco",   nivel_actual_usuario |-> Some(660000)],
     [horizonte_meses |-> 1, escenario |-> "humedo", nivel_actual_usuario |-> None],
     [horizonte_meses |-> 0, escenario |-> "seco",   nivel_actual_usuario |-> None],
     [horizonte_meses |-> 2, escenario |-> "dry",    nivel_actual_usuario |-> None]}

InitEtapas ==
    /\ MODEL = None
    /\ DF_ANUAL_PRED = None
    /\ DF_ESCENARIOS = None
    /\ UMBRALES = UmbralesVacio
    /\ Y_ULTIMO_REAL = None
    /\ ultimoInit = "ninguno"
    /\ llamada = [r \in Peticiones |-> FrameLibre]

\* inicializar_modulo at import, or a reload while no call is in flight
InicializarEnReposo ==
    /\ \A r \in Peticiones : llamada[r].pc = "libre"
    /\ \E csv \in FuentesEtapas : inicializar_modulo(csv)
    /\ UNCHANGED llamada

\* a call of predecir_escenario begins (the module has been imported)
Recibir(r) ==
    /\ ultimoInit # "ninguno"
    /\ llamada[r].pc = "libre"
    /\ \E a \in SolicitudesEtapas :
          llamada' = [llamada EXCEPT ![r] = [FrameLibre EXCEPT !.pc = "init", !.args = a]]
    /\ UNCHANGED <<globales, ultimoInit>>

\* call r executes the statement it is at
Avanzar(r) ==
    /\ llamada[r].pc \notin {"libre", "fin"}
    /\ \E ancho \in Anchos : llamada' = [llamada EXCEPT ![r] = Etapa(r, ancho)]
    /\ UNCHANGED <<globales, ultimoInit>>

\* the outcome of call r has been returned to its caller
Devolver(r) ==
    /\ llamada[r].pc = "fin"
    /\ llamada' = [llamada EXCEPT ![r] = FrameLibre]
    /\ UNCHANGED <<globales, ultimoInit>>

NextEtapas ==
    \/ InicializarEnReposo
    \/ \E r \in Peticiones : Recibir(r)
    \/ \E r \in Peticiones : Avanzar(r)
    \/ \E r \in Peticiones : Devolver(r)

SpecEtapas == InitEtapas /\ [][NextEtapas]_vars


(***************************************************************************)
(* Properties of the service                                               *)
(***************************************************************************)
Inicializado == MODEL # None /\ DF_ANUAL_PRED # None
NombresValidos == {"normal", "seco", "muy_seco", "humedo"}
EsPredict == llamada.op = "predecir_escenario"
Resultado == Val(llamada.res)
EsFueraDeRango(r) == r.exc = "ValueError" /\ r.motivo = "horizonte"
EsEscenarioDesconocido(r) == r.exc = "ValueError" /\ r.motivo = "escenario"

C3_EscenarioDesconocido ==
    (llamada.op \in {"predecir_escenario", "aplicar_escenario"} /\ Inicializado) =>
        LET e == llamada.args.escenario
        IN /\ (e \notin NombresValidos) <=> EsEscenarioDesconocido(Resultado)
           /\ EsEscenarioDesconocido(Resultado) =>
                 /\ Resultado.recibido = <<e>>
                 /\ Resultado.opciones = <<"normal", "seco", "muy_seco", "humedo">>

\* C3 witness: an unknown scenario with an out-of-range horizon
C3_Witness ==
    /\ EsPredict /\ Inicializado
    /\ llamada.args.escenario = "dry"
    /\ llamada.args.horizonte_meses = 181
    /\ EsEscenarioDesconocido(Resultado)

\* C4: while the fitted model or the historical/threshold state is not
\* initialized, every request, valid or not, fails with the not-initialized
\* RuntimeError: no validation error, no response.
C4_NoInicializado ==
    (EsPredict /\ (MODEL = None \/ DF_ANUAL_PRED = None \/ UMBRALES.claves = {})) =>
        /\ Resultado.exc = "RuntimeError"
        /\ Resultado.motivo = "no_inicializado"
        /\ Resultado.val = None
        /\ Resultado.status = 500

\* C4 witness: an invalid request while the history is loaded and the model
\* is not fitted
C4_Witness ==
    /\ EsPredict
    /\ MODEL = None /\ DF_ANUAL_PRED # None
    /\ llamada.args.escenario = "invalido"
    /\ llamada.args.horizonte_meses = 0
    /\ Resultado.exc = "RuntimeError"

\* C5 as stated: after an inicializar_modulo call that failed with a missing
\* source, a schema error or an empty series, no request is answered with a
\* prediction until a later call succeeds.
C5_RechazaTrasFallo ==
    (EsPredict /\ ultimoInit \in {"falta_archivo", "faltan_columnas", "serie_vacia"})
        => Resultado.exc # ""


(***************************************************************************)
(* Properties of the pure functions                                        *)
(***************************************************************************)
Hecho(op) == llamada.op = op /\ llamada.res # None

\* C6: clasificar_riesgo gives every period exactly one situation: below the
\* severe threshold it is severe drought (is_drought, not is_low); from the
\* severe threshold up to below the low threshold it is low level (is_low,
\* not is_drought); otherwise normal with both flags false. The flags are
\* never both true and the label agrees with them.
C6_ParticionPorPeriodo ==
    Hecho("clasificar_riesgo") =>
        LET a  == llamada.args
            df == Resultado.df
        IN /\ Len(df) = Len(a.pred_df)
           /\ \A i \in 1..Len(df) :
                 LET v == a.pred_df[i].yhat_final
                     r == df[i]
                 IN /\ ~(r.es_sequia /\ r.es_bajo)
                    /\ r.situacion \in {"Sequia severa", "Nivel bajo", "Normal"}
                    /\ (r.situacion = "Sequia severa") <=> r.es_sequia
                    /\ (r.situacion = "Nivel bajo") <=> r.es_bajo
                    /\ (r.situacion = "Normal") <=> (~r.es_sequia /\ ~r.es_bajo)
                    /\ (a.umbral_sequia # NaN /\ a.umbral_bajo # NaN) =>
                          LET q == a.umbral_sequia[1]
                              b == a.umbral_bajo[1]
                          IN /\ v < q => r.situacion = "Sequia severa"
                             /\ (q <= v /\ v < b) => r.situacion = "Nivel bajo"
                             /\ ~(v < q) /\ ~(q <= v /\ v < b) => r.situacion = "Normal"

\* C6 witness: a value equal to the severe threshold is classified low level
C6_Witness ==
    /\ Hecho("clasificar_riesgo")
    /\ llamada.args.umbral_sequia = <<600000>>
    /\ llamada.args.umbral_bajo = <<650000>>
    /\ Len(llamada.args.pred_df) = 3
    /\ llamada.args.pred_df[2].yhat_final = 600000
    /\ Resultado.df[2].situacion = "Nivel bajo"
    /\ Resultado.df[1].situacion = "Sequia severa"
    /\ Resultado.df[3].situacion = "Normal"

Criticos(df) == Cardinality({i \in 1..Len(df) : df[i].es_sequia \/ df[i].es_bajo})

C8_CeroPeriodos ==
    (Hecho("clasificar_riesgo") /\ llamada.args.pred_df = <<>>) =>
        /\ Resultado.riesgo_global = "BAJO"
        /\ Resultado.df = <<>>

\* C8 witness: a call on zero periods has returned
C8_Witness ==
    /\ Hecho("clasificar_riesgo")
    /\ llamada.args.pred_df = <<>>
    /\ llamada.args.umbral_bajo = <<650000>>
    /\ Resultado.riesgo_global = "BAJO"

EntradaDe(fila) ==
    [fecha         |-> <<1970 + fila.ds \div 12, (fila.ds % 12) + 1, 1>>,
     nivel         |-> fila.yhat_final,
     situacion     |-> fila.situacion,
     es_sequia     |-> fila.es_sequia,
     es_nivel_bajo |-> fila.es_bajo]

\* the entry is the one of this row, its level within half a hundredth
MismaEntrada(e, fila) ==
    /\ [e EXCEPT !.nivel = 0] = [EntradaDe(fila) EXCEPT !.nivel = 0]
    /\ e.nivel % 10 = 0
    /\ e.nivel - fila.yhat_final <= 5
    /\ fila.yhat_final - e.nivel <= 5

\* C9 as stated: for every horizon_length the response has
\* min(horizon_length, length of the classified sequence) monthly entries.
C9_LongitudMin ==
    Hecho("construir_respuesta_api") =>
        Len(Resultado.prediccion_mensual) =
            Min(llamada.args.horizonte_meses, Len(llamada.args.pred_df))

\* C9 amended: for every horizon_length >= 0 the response has
\* min(horizon_length, length of the classified sequence) monthly entries,
\* which are the first entries of the classified sequence in their order.
C9_LongitudMinNoNegativo ==
    (Hecho("construir_respuesta_api") /\ llamada.args.horizonte_meses >= 0) =>
        LET m == Resultado.prediccion_mensual
        IN /\ Len(m) = Min(llamada.args.horizonte_meses, Len(llamada.args.pred_df))
           /\ \A i \in 1..Len(m) : MismaEntrada(m[i], llamada.args.pred_df[i])

\* C9 witness: a classified sequence longer than the horizon is cut to it
C9_Witness ==
    /\ Hecho("construir_respuesta_api")
    /\ llamada.args.horizonte_meses = 2
    /\ Len(llamada.args.pred_df) = 3
    /\ llamada.args.pred_df[1] # llamada.args.pred_df[2]
    /\ Len(Resultado.prediccion_mensual) = 2

FactorDe(e) ==
    CASE e = "normal" -> 10 [] e = "seco" -> 9 [] e = "muy_seco" -> 8 [] e = "humedo" -> 11

\* C10: for a valid scenario name aplicar_escenario returns as many rows as
\* it was given, the adjusted central, lower and upper values being the
\* input values times the scenario's factor (1.0, 0.9, 0.8, 1.1); the input
\* and the original fields are unchanged.
C10_FactorEscenario ==
    (llamada.op = "aplicar_escenario" /\ Inicializado
        /\ llamada.args.escenario \in NombresValidos) =>
        LET in  == llamada.args.pred_df
            out == Resultado.val
            f   == FactorDe(llamada.args.escenario)
        IN /\ Resultado.exc = ""
           /\ Len(out) = Len(in)
           /\ Resultado.pred_df = in
           /\ \A i \in 1..Len(in) :
                 /\ 10 * out[i].yhat_adj = in[i].yhat * f
                 /\ 10 * out[i].yhat_lower_adj = in[i].yhat_lower * f
                 /\ 10 * out[i].yhat_upper_adj = in[i].yhat_upper * f
                 /\ out[i].ds = in[i].ds
                 /\ out[i].yhat = in[i].yhat
                 /\ out[i].yhat_lower = in[i].yhat_lower
                 /\ out[i].yhat_upper = in[i].yhat_upper

\* C10 witness: two rows adjusted by the dry scenario
C10_Witness ==
    /\ llamada.op = "aplicar_escenario" /\ Inicializado
    /\ llamada.args.escenario = "seco"
    /\ Len(llamada.args.pred_df) = 2
    /\ Resultado.exc = ""
    /\ Resultado.val[1].yhat_adj = 630000

\* the increases of the user level tried
Desplazamientos == {-9500, 1, 20000}

\* C11: ajustar_por_nivel_usuario adds one offset to the central, lower and
\* upper value of every period, 0 without a user level and user level minus
\* last historical value otherwise; a user level equal to the last value
\* changes nothing, raising the user level by d raises every calibrated
\* value by d, and the differences between consecutive periods are kept.
C11_DesplazamientoUniforme ==
    Hecho("ajustar_por_nivel_usuario") =>
        LET in    == llamada.args.pred_df
            y     == llamada.args.y_ultimo_real
            n     == llamada.args.nivel_actual_usuario
            out   == Resultado
            delta == IF n = None THEN 0 ELSE n[1] - y
        IN /\ Len(out) = Len(in)
           /\ \A i \in 1..Len(in) :
                 /\ out[i].yhat_final - in[i].yhat_adj = delta
                 /\ out[i].yhat_lower_final - in[i].yhat_lower_adj = delta
                 /\ out[i].yhat_upper_final - in[i].yhat_upper_adj = delta
           /\ n = <<y>> =>
                 \A i \in 1..Len(in) :
                    /\ out[i].yhat_final = in[i].yhat_adj
                    /\ out[i].yhat_lower_final = in[i].yhat_lower_adj
                    /\ out[i].yhat_upper_final = in[i].yhat_upper_adj
           /\ n # None =>
                 \A d \in Desplazamientos :
                    LET mas == ajustar_por_nivel_usuario(in, y, <<n[1] + d>>)
                    IN \A i \in 1..Len(in) :
                          /\ mas[i].yhat_final = out[i].yhat_final + d
                          /\ mas[i].yhat_lower_final = out[i].yhat_lower_final + d
                          /\ mas[i].yhat_upper_final = out[i].yhat_upper_final + d
           /\ \A i \in 1..(Len(in) - 1) :
                 out[i + 1].yhat_final - out[i].yhat_final
                    = in[i + 1].yhat_adj - in[i].yhat_adj

\* C11 witness: three periods calibrated with user level 660.0 against the
\* last value 650.5: every value raised by 9.5
C11_Witness ==
    /\ Hecho("ajustar_por_nivel_usuario")
    /\ Len(llamada.args.pred_df) = 3
    /\ llamada.args.pred_df[1].yhat_adj = 630000
    /\ llamada.args.pred_df[2] # llamada.args.pred_df[1]
    /\ llamada.args.y_ultimo_real = 650500
    /\ llamada.args.nivel_actual_usuario = <<660000>>
    /\ Resultado[1].yhat_final = 639500
    /\ Resultado[1].yhat_lower_final = 621500

\* the central base forecast of the request served, as generar_forecast_base
\* gives it in this state (the central estimate does not depend on the
\* interval sampled)
BaseCentral ==
    generar_forecast_base(llamada.args.horizonte_meses,
                          CHOOSE a \in Anchos : TRUE).val

\* C12: every answered request carries, per monthly entry, the level
\* (base central x scenario factor) + (user level - last historical value),
\* rounded to two decimals, with the situation and flags of that value
\* against the thresholds of the process, and drought_likely exactly for the
\* aggregate risks ALTO and CRITICO.
C12_FactorLuegoDesplazamiento ==
    (EsPredict /\ Resultado.exc = "") =>
        LET n     == llamada.args.nivel_actual_usuario
            f     == FactorDe(llamada.args.escenario)
            delta == IF n = None THEN 0 ELSE n[1] - Val(Y_ULTIMO_REAL)
            m     == Resultado.val.prediccion_mensual
            base  == BaseCentral
            valor  == [i \in 1..Len(base) |-> Por(base[i].yhat, f) + delta]
            sequia == [i \in 1..Len(base) |-> Lt(valor[i], UMBRALES.umbral_sequia)]
            bajo   == [i \in 1..Len(base) |->
                         Ge(valor[i], UMBRALES.umbral_sequia)
                            /\ Lt(valor[i], UMBRALES.umbral_bajo)]
            c     == Cardinality({i \in 1..Len(base) : sequia[i] \/ bajo[i]})
        IN /\ Len(m) = Len(base)
           /\ \A i \in 1..Len(m) :
                 /\ m[i].fecha = Strftime(base[i].ds)
                 /\ m[i].nivel = Round2(valor[i])
                 /\ m[i].es_sequia = sequia[i]
                 /\ m[i].es_nivel_bajo = bajo[i]
                 /\ m[i].situacion = IF sequia[i] THEN "Sequia severa"
                                     ELSE IF bajo[i] THEN "Nivel bajo" ELSE "Normal"
           /\ Resultado.val.riesgo_global = RiesgoGlobal(c, Len(m))
           /\ Resultado.val.sequia_probable
                 = (Resultado.val.riesgo_global \in {"ALTO", "CRITICO"})

\* C12 witness: thresholds 600.0 and 650.0, last value 650.5, one base
\* period of 700.0, scenario factor 0.9 and user level 660.0 give the level
\* 639.5 (not (700.0 + 9.5) x 0.9 = 638.55), low level, CRITICO and
\* drought_likely
C12_Witness ==
    /\ EsPredict /\ Resultado.exc = ""
    /\ UMBRALES.umbral_sequia = <<600000>>
    /\ UMBRALES.umbral_bajo = <<650000>>
    /\ Y_ULTIMO_REAL = <<650500>>
    /\ llamada.args.horizonte_meses = 1
    /\ llamada.args.escenario = "seco"
    /\ llamada.args.nivel_actual_usuario = <<660000>>
    /\ Len(BaseCentral) = 1
    /\ BaseCentral[1].yhat = 700000
    /\ Len(Resultado.val.prediccion_mensual) = 1
    /\ Resultado.val.prediccion_mensual[1].nivel = 639500
    /\ Resultado.val.prediccion_mensual[1].nivel # Round2(Por(700000 + 9500, 9))
    /\ Resultado.val.prediccion_mensual[1].situacion = "Nivel bajo"
    /\ Resultado.val.prediccion_mensual[1].es_nivel_bajo
    /\ ~Resultado.val.prediccion_mensual[1].es_sequia
    /\ Resultado.val.riesgo_global = "CRITICO"
    /\ Resultado.val.sequia_probable

\* the most recent inicializar_modulo call computed thresholds on a
\* non-empty series
UmbralesCalculados == ultimoInit \in {"ok", "fit_falla"}

\* C13 as stated: after every threshold computation on a non-empty series
\* the severe-drought threshold is strictly below the low-level threshold
\* (the code has no data-quality flag that could be raised instead).
C13_SequiaMenorQueBajo ==
    UmbralesCalculados =>
        /\ UMBRALES.umbral_sequia # NaN
        /\ UMBRALES.umbral_bajo # NaN
        /\ UMBRALES.umbral_sequia[1] < UMBRALES.umbral_bajo[1]

\* what the percentiles do ensure: the severe-drought threshold is never
\* above the low-level threshold
C13_SequiaNoMayorQueBajo ==
    UmbralesCalculados =>
        /\ UMBRALES.umbral_sequia # NaN
        /\ UMBRALES.umbral_bajo # NaN
        /\ UMBRALES.umbral_sequia[1] <= UMBRALES.umbral_bajo[1]

FuenteValida(csv) == csv.existe /\ {"fecha", "total"} \subseteq csv.columnas

\* C14 as stated: for a source that exists and has the date and volume
\* columns, the sequence returned by cargar_datos_historicos is sorted
\* ascending by date, has no two rows with the same date, and has no row
\* with a missing date or volume.
C14_OrdenadaSinRepetidos ==
    (Hecho("cargar_datos_historicos") /\ FuenteValida(llamada.args.csv)) =>
        LET df == Resultado.df
        IN /\ Resultado.exc = ""
           /\ \A i \in 1..Len(df) : df[i].fecha # None /\ df[i].total # None
           /\ \A i \in 1..(Len(df) - 1) : df[i].fecha[1] <= df[i + 1].fecha[1]
           /\ \A i, j \in 1..Len(df) : i # j => df[i].fecha # df[j].fecha

\* what the loader does ensure: the rows returned are the rows of the source
\* with a date and a volume, every one of them, sorted ascending by date
C14_OrdenadaSinFaltantes ==
    (Hecho("cargar_datos_historicos") /\ FuenteValida(llamada.args.csv)) =>
        LET df == Resultado.df
            in == llamada.args.csv.filas
            completa(r) == r.fecha # None /\ r.total # None
        IN /\ Resultado.exc = ""
           /\ \A i \in 1..Len(df) : completa(df[i])
           /\ \A i \in 1..(Len(df) - 1) : df[i].fecha[1] <= df[i + 1].fecha[1]
           /\ \A r \in FilasCsv :
                 completa(r) =>
                    Cardinality({i \in 1..Len(df) : df[i] = r})
                       = Cardinality({i \in 1..Len(in) : in[i] = r})

\* the request served gets the same outcome when it is made again in this
\* state, whatever interval the forecast provider samples
MismaRespuesta ==
    EsPredict =>
        \A a \in Anchos :
            LET r == predecir_escenario(llamada.args.horizonte_meses,
                                        llamada.args.escenario,
                                        llamada.args.nivel_actual_usuario, a)
            IN (r @@ [status |-> HttpStatus(r)]) = Resultado

\* a step in which predecir_escenario serves a request
SirvePeticion == llamada.op # "predecir_escenario" /\ llamada'.op = "predecir_escenario"

\* C15: a predecir_escenario call, answered or failed, leaves the model, the
\* historical series, the scenario table, the thresholds and the last value
\* as they were, and the same request made again in the same state gets the
\* same response or the same error.
C15_SoloLectura ==
    /\ [][SirvePeticion => globales' = globales]_vars
    /\ []MismaRespuesta

\* C15 witness: an answered request with a user level, after which the last
\* historical value is still the one of the load
C15_Witness ==
    /\ EsPredict /\ ultimoInit = "ok"
    /\ llamada.args.horizonte_meses = 2
    /\ llamada.args.nivel_actual_usuario = <<660000>>
    /\ Resultado.exc = ""
    /\ Len(Resultado.val.prediccion_mensual) = 2
    /\ Y_ULTIMO_REAL = <<650500>>

\* the series, thresholds, last value and model are those that one
\* successful load of one source leaves
DeUnaMismaCarga ==
    \E csv \in Fuentes :
        LET carga == cargar_datos_historicos(csv)
            df    == RenameProphet(carga.df)
        IN /\ carga.exc = ""
           /\ df # <<>>
           /\ ~FitFalla(df)
           /\ DF_ANUAL_PRED = Some(df)
           /\ UMBRALES = calcular_umbrales([i \in 1..Len(df) |-> df[i].y])
           /\ Y_ULTIMO_REAL = Some(df[Len(df)].y)
           /\ MODEL = Some(entrenar_modelo(df))

\* C18 as stated: whenever predecir_escenario answers with a prediction,
\* after any successful and failed inicializar_modulo calls, the thresholds,
\* the last value, the historical series and the fitted model come from one
\* and the same load.
C18_UnaSolaCarga ==
    (EsPredict /\ Resultado.exc = "") => DeUnaMismaCarga


(***************************************************************************)
(* Properties of the calls in flight                                       *)
(***************************************************************************)
\* C16: with several calls in flight, under every interleaving of their
\* statements, every call that ends has the response or the error that
\* predecir_escenario gives for its arguments when it runs alone in this
\* state.
C16_ComoSiEstuvieraSola ==
    \A r \in Peticiones :
        llamada[r].pc = "fin" =>
            \A ancho \in Anchos :
                Val(llamada[r].res) =
                    predecir_escenario(llamada[r].args.horizonte_meses,
                                       llamada[r].args.escenario,
                                       llamada[r].args.nivel_actual_usuario, ancho)

\* C16 witness: call 1 has ended with its two monthly entries while call 2,
\* with another scenario and horizon, holds its own calibrated frame
C16_Witness ==
    /\ llamada[1].pc = "fin"
    /\ llamada[1].args.escenario = "seco"
    /\ Val(llamada[1].res).exc = ""
    /\ Len(Val(llamada[1].res).val.prediccion_mensual) = 2
    /\ Val(llamada[1].res).val.prediccion_mensual[1].nivel = 639500
    /\ llamada[2].pc = "clasificar"
    /\ llamada[2].args.escenario = "humedo"
    /\ Len(Val(llamada[2].forecast)) = 1
    /\ Val(llamada[2].forecast)[1].yhat_final = 770000

\* the stages in their declared order: Validate (the initialization check,
\* the scenario check, the horizon check), Forecast, ScenarioAdjust,
\* Calibrate, Classify, Respond
OrdenDeclarado ==
    <<"init", "escenario", "horizonte", "forecast", "aplicar", "ajustar",
      "clasificar", "construir">>

\* C17: the statements a call has executed are an initial part of the
\* declared order, none repeated; the forecast is generated only when the
\* initialization, scenario and horizon checks have passed; a response is
\* returned only after every stage ran, and a failed call ends with its
\* exception and no response.
C17_EtapasEnOrden ==
    \A r \in Peticiones :
        LET p == llamada[r]
        IN /\ Len(p.traza) <= Len(OrdenDeclarado)
           /\ p.traza = SubSeq(OrdenDeclarado, 1, Len(p.traza))
           /\ (\E i \in 1..Len(p.traza) : p.traza[i] = "forecast") =>
                 /\ Inicializado
                 /\ p.args.escenario \in NombresValidos
                 /\ p.args.horizonte_meses >= 1 /\ p.args.horizonte_meses <= 180
           /\ (p.pc = "fin" /\ Val(p.res).exc = "") => p.traza = OrdenDeclarado
           /\ (p.pc = "fin" /\ Val(p.res).exc # "") =>
                 /\ Val(p.res).val = None
                 /\ Len(p.traza) < Len(OrdenDeclarado)
           /\ p.pc # "fin" => p.res = None

\* C17 witness: one call answered after all eight statements, another ended
\* by the horizon check after three
C17_Witness ==
    /\ llamada[1].pc = "fin"
    /\ Val(llamada[1].res).exc = ""
    /\ llamada[1].traza = OrdenDeclarado
    /\ llamada[2].pc = "fin"
    /\ Val(llamada[2].res).motivo = "horizonte"
    /\ llamada[2].traza = <<"init", "escenario", "horizonte">>

=============================================================================
